---- MODULE Spec2Model ----
(***************************************************************************)
(* State-machine model of the attendance tracker in src/app.py: the        *)
(* relational store (Employee, AttendanceRecord, Notification,             *)
(* EmployeeRequest tables), the wall clock, and the Flask request handlers *)
(* that read and write the store.                                          *)
(*                                                                         *)
(* Every handler is one action, except the POST branch of                  *)
(* employee_dashboard, whose SELECT (line 300) and INSERT/UPDATE + commit  *)
(* (lines 304-306, 313-314) are two steps of a request thread: the Flask   *)
(* server handles requests on concurrent threads and the handler takes no  *)
(* lock, so other requests may run between the two.                        *)
(*                                                                         *)
(* Not modelled: password hashing and the login forms (a request is issued *)
(* under a session cookie naming an employee id, which may outlive the     *)
(* employee row), profile editing, file upload, the Admin table.           *)
(***************************************************************************)
EXTENDS Integers, Sequences, FiniteSets

\* ---------------------------------------------------------------- bounds
MaxEmp == 2        \* employee rows ever alive at once
MaxAtt == 2        \* rows of attendance_record
MaxReq == 1        \* rows of employee_request
MaxNotif == 2      \* rows of notification
MaxNow == 3        \* instants the clock runs through
NumThreads == 2    \* concurrent dashboard POST requests
MaxHistory == 3    \* rows of an attendance history drawn for the rating

\* Clock instants per calendar day.
TicksPerDay == 2

\* SQL NULL / Python None.  Row ids, clock instants and times of day start at 1.
NULL == 0

EmpIds == 1..MaxEmp
Threads == 1..NumThreads

\* A form field that is not part of the submitted form.
Missing == "<missing>"

VARIABLES
    employees,      \* Employee table: id -> emp_id (the employee code)
    attendance,     \* AttendanceRecord table: sequence of rows, id = index
    notifications,  \* Notification table: sequence of rows, id = index
    requests,       \* EmployeeRequest table: sequence of rows, id = index
    now,            \* the server's wall clock
    inflight,       \* per thread: the dashboard POST between its SELECT and its commit
    resp            \* the response of the request that completed last

vars == <<employees, attendance, notifications, requests, now, inflight, resp>>

\* ---------------------------------------------------------------- clock
\* datetime.today().date()
DateOf(t) == ((t - 1) \div TicksPerDay) + 1

\* datetime.now().strftime("%H:%M:%S"): the time of day, the date dropped.
TimeOfDay(t) == ((t - 1) % TicksPerDay) + 1

\* ---------------------------------------------------------------- helpers
Max(S) == CHOOSE x \in S : \A y \in S : y <= x

Ids(table) == 1..Len(table)

\* str.isdigit() on the form values the model submits.
IsDigit(s) == s \in {"1001", "1002", "9"}

\* Python truthiness of a form value: None and "" are falsy.
Truthy(s) == s # Missing /\ s # ""

Idle == [pc |-> "idle", emp |-> NULL, action |-> "", today |-> NULL,
         record |-> NULL, check_out |-> NULL]

NoResp == [op |-> "", code |-> 0, flash |-> "", inbox |-> <<>>, rating |-> 0]

\* What the client gets back: the handler, the HTTP status, the flashed message;
\* the dashboard page adds the rendered inbox and rating.
Response(op, code, flash) ==
    [op |-> op, code |-> code, flash |-> flash, inbox |-> <<>>, rating |-> 0]

\* ---------------------------------------------------------------- Init
Init ==
    /\ employees = [i \in {} |-> ""]
    /\ attendance = <<>>
    /\ notifications = <<>>
    /\ requests = <<>>
    /\ now = 1
    /\ inflight = [t \in Threads |-> Idle]
    /\ resp = NoResp

\* ---------------------------------------------------------------- clock step
Tick ==
    /\ now < MaxNow
    /\ now' = now + 1
    /\ UNCHANGED <<employees, attendance, notifications, requests, inflight, resp>>

\* ---------------------------------------------------------------- admin: employees
\* add_employee (POST): numeric checks, then INSERT; emp_id is UNIQUE, and the
\* INTEGER PRIMARY KEY of a new row is one more than the largest id in the table.
NewEmployeeId == IF DOMAIN employees = {} THEN 1 ELSE Max(DOMAIN employees) + 1

add_employee(emp_id_str, mobile_number) ==
    /\ NewEmployeeId \in EmpIds
    /\ IF ~IsDigit(emp_id_str)
       THEN /\ resp' = Response("add_employee", 302, "Employee ID must be numeric")
            /\ UNCHANGED employees
       ELSE IF ~IsDigit(mobile_number)
       THEN /\ resp' = Response("add_employee", 302, "Mobile Number must be numeric")
            /\ UNCHANGED employees
       ELSE IF \E i \in DOMAIN employees : employees[i] = emp_id_str
       THEN /\ resp' = Response("add_employee", 500, "IntegrityError")
            /\ UNCHANGED employees
       ELSE /\ employees' = [i \in DOMAIN employees \cup {NewEmployeeId} |->
                                IF i = NewEmployeeId THEN emp_id_str ELSE employees[i]]
            /\ resp' = Response("add_employee", 302, "Employee added!")
    /\ UNCHANGED <<attendance, notifications, requests, now, inflight>>

\* The rows db.session.delete(emp) finds through the relationships declared on the
\* children (backref 'attendance', line 56; backref 'requests', line 87).
AttendanceOf(emp) == {i \in Ids(attendance) : attendance[i].employee_id = emp}
RequestsOf(emp) == {i \in Ids(requests) : requests[i].employee_id = emp}

\* Neither relationship declares cascade="all, delete-orphan", so the flush of the
\* delete sets employee_id of every dependent row to NULL; both columns are
\* nullable=False (lines 50, 80), the UPDATE fails and the transaction is rolled back.
DeleteBlocked(emp) == AttendanceOf(emp) # {} \/ RequestsOf(emp) # {}

\* delete_employee (POST /admin/delete/<emp_id>)
delete_employee(emp_id) ==
    /\ IF emp_id \notin DOMAIN employees
       THEN /\ resp' = Response("delete_employee", 404, "")
            /\ UNCHANGED employees
       ELSE IF DeleteBlocked(emp_id)
       THEN /\ resp' = Response("delete_employee", 500, "IntegrityError")
            /\ UNCHANGED employees
       ELSE /\ employees' = [i \in DOMAIN employees \ {emp_id} |-> employees[i]]
            /\ resp' = Response("delete_employee", 302, "Employee deleted successfully!")
    /\ UNCHANGED <<attendance, notifications, requests, now, inflight>>

\* ---------------------------------------------------------------- employee: check-in / check-out
\* FirstRecord, were the query to look only for a record still open (check_out IS NULL).
M_FirstRecordOpenOnly(emp, today) ==
    LET match == {i \in 1..Len(attendance) :
                     /\ attendance[i].employee_id = emp
                     /\ attendance[i].date = today
                     /\ attendance[i].check_out = NULL}
    IN  IF match = {} THEN {NULL} ELSE match

\* AttendanceRecord.query.filter_by(employee_id=emp.id, date=today).first(): the
\* query has no ORDER BY, so with several matching rows any of them may come first.
FirstRecord(emp, today) ==
    LET match == {i \in Ids(attendance) :
                     attendance[i].employee_id = emp /\ attendance[i].date = today}
    IN  IF match = {} THEN {NULL} ELSE match

\* Lines 298-300: what the request holds after its SELECT.
DashboardSelect(emp, action) ==
    {[pc |-> "selected", emp |-> emp, action |-> action, today |-> DateOf(now),
      record |-> r,
      check_out |-> IF r = NULL THEN NULL ELSE attendance[r].check_out] :
        r \in FirstRecord(emp, DateOf(now))}

\* Lines 302-317: the branch on action, the INSERT or UPDATE, and the flash.
DashboardCommit(loc) ==
    CASE loc.action = "check_in" /\ loc.record = NULL ->
            /\ Len(attendance) < MaxAtt
            /\ attendance' = Append(attendance,
                   [employee_id |-> loc.emp, date |-> loc.today, status |-> "Present",
                    check_in |-> TimeOfDay(now), check_out |-> NULL])
            /\ resp' = Response("check_in", 200, "Checked in successfully!")
      [] loc.action = "check_in" /\ loc.record # NULL ->
            /\ resp' = Response("check_in", 200, "Already checked in today!")
            /\ UNCHANGED attendance
      [] loc.action = "check_out" /\ loc.record # NULL /\ loc.check_out = NULL ->
            /\ attendance' = [attendance EXCEPT ![loc.record].check_out = TimeOfDay(now)]
            /\ resp' = Response("check_out", 200, "Checked out successfully!")
      [] loc.action = "check_out" /\ ~(loc.record # NULL /\ loc.check_out = NULL) ->
            /\ resp' = Response("check_out", 200, "Cannot check out before checking in!")
            /\ UNCHANGED attendance
      [] OTHER ->
            /\ resp' = Response("dashboard", 200, "")
            /\ UNCHANGED attendance

Actions == {"check_in", "check_out", Missing}

\* The request has a statement left to send to the store (lines 304-306 or 313-314);
\* otherwise all that follows its SELECT is the flash and the page.
WritesStore(loc) ==
    \/ loc.action = "check_in" /\ loc.record = NULL
    \/ loc.action = "check_out" /\ loc.record # NULL /\ loc.check_out = NULL

\* employee_dashboard (POST) on thread t, up to and including the SELECT of line 300;
\* a request with nothing to write completes here.
employee_dashboard_select(t, emp_id, action) ==
    /\ inflight[t] = Idle
    /\ IF emp_id \notin DOMAIN employees
       THEN /\ resp' = Response("dashboard", 404, "")
            /\ UNCHANGED <<inflight, attendance>>
       ELSE \E loc \in DashboardSelect(emp_id, action) :
               IF WritesStore(loc)
               THEN /\ inflight' = [inflight EXCEPT ![t] = loc]
                    /\ UNCHANGED <<resp, attendance>>
               ELSE /\ DashboardCommit(loc)
                    /\ UNCHANGED inflight
    /\ UNCHANGED <<employees, notifications, requests, now>>

\* employee_dashboard (POST) on thread t, from line 302 to the response.
employee_dashboard_commit(t) ==
    /\ inflight[t] # Idle
    /\ DashboardCommit(inflight[t])
    /\ inflight' = [inflight EXCEPT ![t] = Idle]
    /\ UNCHANGED <<employees, notifications, requests, now>>

\* employee_dashboard (POST) handled with no other request in between.
employee_dashboard_post(emp_id, action) ==
    /\ IF emp_id \notin DOMAIN employees
       THEN /\ resp' = Response("dashboard", 404, "")
            /\ UNCHANGED attendance
       ELSE \E loc \in DashboardSelect(emp_id, action) : DashboardCommit(loc)
    /\ UNCHANGED <<employees, notifications, requests, now, inflight>>

\* ---------------------------------------------------------------- employee: requests
FormValues == {Missing, "", "text"}

\* employee_create_request (POST /employee/create_request)
employee_create_request(emp_id, request_type, message) ==
    /\ IF emp_id \notin DOMAIN employees
       THEN /\ resp' = Response("create_request", 404, "")
            /\ UNCHANGED requests
       ELSE IF ~Truthy(request_type) \/ ~Truthy(message)
       THEN /\ resp' = Response("create_request", 302, "All fields are required!")
            /\ UNCHANGED requests
       ELSE /\ Len(requests) < MaxReq
            /\ requests' = Append(requests,
                   [employee_id |-> emp_id, request_type |-> request_type,
                    message |-> message, status |-> "Pending"])
            /\ resp' = Response("create_request", 302, "Request submitted successfully!")
    /\ UNCHANGED <<employees, attendance, notifications, now, inflight>>

\* employee_request (POST /employee/request): request.form[...] raises 400 on a
\* missing key; there is no other check before the INSERT.
employee_request(emp_id, request_type, message) ==
    /\ IF emp_id \notin DOMAIN employees
       THEN /\ resp' = Response("request", 404, "")
            /\ UNCHANGED requests
       ELSE IF request_type = Missing \/ message = Missing
       THEN /\ resp' = Response("request", 400, "")
            /\ UNCHANGED requests
       ELSE /\ Len(requests) < MaxReq
            /\ requests' = Append(requests,
                   [employee_id |-> emp_id, request_type |-> request_type,
                    message |-> message, status |-> "Pending"])
            /\ resp' = Response("request", 302, "Request submitted successfully!")
    /\ UNCHANGED <<employees, attendance, notifications, now, inflight>>

\* ---------------------------------------------------------------- admin: requests
Statuses == {"Approved", "Declined", "Pending", "Other"}

\* update_employee_request_status, were it to store new_status unchecked.
M_UpdateNoValidation(request_id, new_status) ==
    /\ IF request_id \notin 1..Len(requests)
       THEN /\ resp' = Response("update_status", 404, "")
            /\ UNCHANGED requests
       ELSE /\ requests' = [requests EXCEPT ![request_id].status = new_status]
            /\ resp' = Response("update_status", 302, "Request approved successfully!")
    /\ UNCHANGED <<employees, attendance, notifications, now, inflight>>

\* f'Request {new_status.lower()} successfully!'
StatusFlash(new_status) ==
    IF new_status = "Approved" THEN "Request approved successfully!"
    ELSE "Request declined successfully!"

\* update_employee_request_status (POST .../update/<request_id>/<new_status>)
update_employee_request_status(request_id, new_status) ==
    /\ IF request_id \notin Ids(requests)
       THEN /\ resp' = Response("update_status", 404, "")
            /\ UNCHANGED requests
       ELSE IF new_status \notin {"Approved", "Declined"}
       THEN /\ resp' = Response("update_status", 302, "Invalid status")
            /\ UNCHANGED requests
       ELSE /\ requests' = [requests EXCEPT ![request_id].status = new_status]
            /\ resp' = Response("update_status", 302, StatusFlash(new_status))
    /\ UNCHANGED <<employees, attendance, notifications, now, inflight>>

\* ---------------------------------------------------------------- admin: notifications
\* The decimal strings of the employee ids, as the form's dropdown submits them.
Digits == <<"1", "2", "3", "4">>

IsInt(s) == \E i \in 1..Len(Digits) : Digits[i] = s

\* int(selected_emp_id)
ParseInt(s) == CHOOSE i \in 1..Len(Digits) : Digits[i] = s

Recipients == {"all", "selected", Missing}
SelectedValues == {Digits[i] : i \in EmpIds} \cup {"", "abc", Missing}

\* admin_notifications (POST); timestamp defaults to datetime.utcnow, the clock instant.
admin_notifications(message, recipient_type, selected_emp_id) ==
    /\ IF message = Missing
       THEN /\ resp' = Response("notifications", 400, "")
            /\ UNCHANGED notifications
       ELSE IF ~Truthy(message)
       THEN /\ resp' = Response("notifications", 302, "Message cannot be empty!")
            /\ UNCHANGED notifications
       ELSE IF recipient_type = "all"
       THEN /\ Len(notifications) < MaxNotif
            /\ notifications' = Append(notifications,
                   [message |-> message, employee_id |-> NULL, timestamp |-> now])
            /\ resp' = Response("notifications", 302, "Notification sent to all employees!")
       ELSE IF recipient_type = "selected" /\ Truthy(selected_emp_id)
       THEN IF ~IsInt(selected_emp_id)
            THEN /\ resp' = Response("notifications", 500, "ValueError")
                 /\ UNCHANGED notifications
            ELSE /\ Len(notifications) < MaxNotif
                 /\ notifications' = Append(notifications,
                        [message |-> message, employee_id |-> ParseInt(selected_emp_id),
                         timestamp |-> now])
                 /\ resp' = Response("notifications", 302, "Notification sent to selected employee!")
       ELSE /\ resp' = Response("notifications", 302, "Please select a valid employee!")
            /\ UNCHANGED notifications
    /\ UNCHANGED <<employees, attendance, requests, now, inflight>>

\* ---------------------------------------------------------------- employee: dashboard page
\* InboxFilter, were the query to drop its filter (as the admin's listing does).
M_InboxFilterAll(emp) == 1..Len(notifications)

\* Line 293: .filter((Notification.employee_id==emp.id)|(Notification.employee_id==None))
InboxFilter(emp) ==
    {i \in Ids(notifications) :
        notifications[i].employee_id = emp \/ notifications[i].employee_id = NULL}

\* .order_by(Notification.timestamp.desc()).all(): every listing of the rows S by
\* descending timestamp; rows of equal timestamp come in any order.
OrderByTimestampDesc(S) ==
    {s \in [1..Cardinality(S) -> S] :
        /\ \A i, j \in DOMAIN s : i # j => s[i] # s[j]
        /\ \A i, j \in DOMAIN s :
              i < j => notifications[s[i]].timestamp >= notifications[s[j]].timestamp}

\* RoundHalfEven, were the rating truncated instead of rounded.
M_RoundDown(n, d) == n \div d

\* round(n / d, 0) as Python rounds: to the nearest integer, ties to even.
RoundHalfEven(n, d) ==
    LET q == n \div d
        r == n % d
    IN  IF 2 * r < d THEN q
        ELSE IF 2 * r > d THEN q + 1
        ELSE IF q % 2 = 0 THEN q ELSE q + 1

\* calculate_rating(emp_id), in hundredths: round((present_days / total_days) * 10, 2)
calculate_rating(emp_id) ==
    LET rows == {i \in Ids(attendance) : attendance[i].employee_id = emp_id}
        total_days == Cardinality(rows)
        present_days == Cardinality({i \in rows : attendance[i].status = "Present"})
    IN  IF total_days = 0 THEN 0
        ELSE RoundHalfEven(1000 * present_days, total_days)

\* employee_dashboard (GET): the page with the inbox, and the rating that
\* inject_ratings adds to every page rendered under an employee session.
employee_dashboard_get(emp_id) ==
    /\ IF emp_id \notin DOMAIN employees
       THEN resp' = Response("dashboard_get", 404, "")
       ELSE \E s \in OrderByTimestampDesc(InboxFilter(emp_id)) :
               resp' = [Response("dashboard_get", 200, "")
                           EXCEPT !.inbox = s, !.rating = calculate_rating(emp_id)]
    /\ UNCHANGED <<employees, attendance, notifications, requests, now, inflight>>

\* ---------------------------------------------------------------- specifications
EmpCodeSeq == <<"1001", "1002">>
EmpCodes == {EmpCodeSeq[i] : i \in 1..Len(EmpCodeSeq)} \cup {"abc"}
Mobiles == {"9", "x"}

EmployeeStep ==
    \/ \E c \in EmpCodes, m \in Mobiles : add_employee(c, m)
    \/ \E e \in EmpIds : delete_employee(e)

RequestStep ==
    \/ \E e \in EmpIds, ty \in FormValues, m \in FormValues : employee_create_request(e, ty, m)
    \/ \E e \in EmpIds, ty \in FormValues, m \in FormValues : employee_request(e, ty, m)
    \/ \E r \in 1..(MaxReq + 1), st \in Statuses : update_employee_request_status(r, st)

\* The form carries employee_id with recipient 'selected'.
NotificationStep ==
    \/ \E m \in FormValues, rt \in Recipients :
          \E sel \in (IF rt = "selected" THEN SelectedValues ELSE {Missing}) :
              admin_notifications(m, rt, sel)
    \/ \E e \in EmpIds : employee_dashboard_get(e)

ConcurrentPostStep ==
    \/ \E t \in Threads, e \in EmpIds, a \in Actions : employee_dashboard_select(t, e, a)
    \/ \E t \in Threads : employee_dashboard_commit(t)

\* The whole program, its requests served on concurrent threads.
Next ==
    \/ Tick
    \/ EmployeeStep
    \/ RequestStep
    \/ NotificationStep
    \/ ConcurrentPostStep

Spec == Init /\ [][Next]_vars

\* A handler of one table leaves the other tables unchanged, so a property of one
\* table is checked under the handlers that read or write it, with the employee
\* handlers and the clock.

\* The attendance ledger under concurrent check-in / check-out requests.
LedgerNext ==
    \/ Tick
    \/ EmployeeStep
    \/ ConcurrentPostStep

LedgerSpec == Init /\ [][LedgerNext]_vars

\* The attendance ledger, its requests served one at a time.
SeqLedgerNext ==
    \/ Tick
    \/ EmployeeStep
    \/ \E e \in EmpIds, a \in Actions : employee_dashboard_post(e, a)

SeqLedgerSpec == Init /\ [][SeqLedgerNext]_vars

\* The request board.
RequestNext ==
    \/ EmployeeStep
    \/ RequestStep

RequestSpec == Init /\ [][RequestNext]_vars

\* The notification board and the employees' inboxes.
NotificationNext ==
    \/ Tick
    \/ EmployeeStep
    \/ NotificationStep

NotificationSpec == Init /\ [][NotificationNext]_vars

\* The rating over any attendance history: the ledgers of up to MaxHistory days, one
\* row a day, each of an employee who was present or absent that day, and the pages
\* that show the rating.
RatedEmployees == [i \in EmpIds \cap (1..Len(EmpCodeSeq)) |-> EmpCodeSeq[i]]

HistoryRow(day, emp, status) ==
    [employee_id |-> emp, date |-> day, status |-> status,
     check_in |-> IF status = "Present" THEN 1 ELSE NULL, check_out |-> NULL]

Ledgers ==
    UNION {{[day \in 1..n |-> HistoryRow(day, who[day], what[day])] :
               who \in [1..n -> DOMAIN RatedEmployees],
               what \in [1..n -> {"Present", "Absent"}]} :
              n \in 0..MaxHistory}

RatingInit ==
    /\ employees = RatedEmployees
    /\ attendance \in Ledgers
    /\ notifications = <<>>
    /\ requests = <<>>
    /\ now = MaxHistory * TicksPerDay
    /\ inflight = [t \in Threads |-> Idle]
    /\ resp = NoResp

RatingNext == \E e \in EmpIds : employee_dashboard_get(e)

RatingSpec == RatingInit /\ [][RatingNext]_vars

\* ================================================================ properties
\* The rows of the ledger for employee e on day d.
RecordsFor(e, d) ==
    {i \in Ids(attendance) : attendance[i].employee_id = e /\ attendance[i].date = d}

\* C1: for every employee and calendar day at most one attendance row exists, also
\* when two check-in requests of the employee interleave between SELECT and commit.
C1_AtMostOneRecordPerDay ==
    \A e \in EmpIds, d \in 1..DateOf(MaxNow) : Cardinality(RecordsFor(e, d)) <= 1

\* C2: a check-out with no record of the day fails as NotCheckedIn; with a record not
\* yet checked out it succeeds and sets check_out; with a record already checked out
\* it fails with an outcome of its own, different from the NotCheckedIn one.
C2_CheckOutOutcomes ==
    [][\A e \in DOMAIN employees :
          employee_dashboard_post(e, "check_out") =>
             LET recs == RecordsFor(e, DateOf(now))
                 open == {i \in recs : attendance[i].check_out = NULL}
             IN  /\ recs = {} =>
                       /\ resp'.flash = "Cannot check out before checking in!"
                       /\ attendance' = attendance
                 /\ open # {} =>
                       /\ resp'.flash = "Checked out successfully!"
                       /\ \E i \in open : attendance'[i].check_out # NULL
                 /\ (recs # {} /\ open = {}) =>
                       /\ resp'.flash \notin {"Checked out successfully!",
                                              "Cannot check out before checking in!"}
                       /\ attendance' = attendance]_vars

\* C3: served one at a time, a check-in while a record of the employee for the day
\* exists, checked out or not, is answered "Already checked in today!" and leaves
\* the ledger as it was.
C3_SecondCheckInRejected ==
    [][\A e \in DOMAIN employees :
          (employee_dashboard_post(e, "check_in") /\ RecordsFor(e, DateOf(now)) # {}) =>
             /\ resp'.flash = "Already checked in today!"
             /\ attendance' = attendance]_vars

\* A second check-in was rejected on a day whose record is already checked out.
C3_Witness ==
    /\ resp.op = "check_in"
    /\ resp.flash = "Already checked in today!"
    /\ \E i \in Ids(attendance) :
          attendance[i].date = DateOf(now) /\ attendance[i].check_out # NULL

\* C4: a request starts Pending, and once Approved or Declined its status never
\* changes again.
C4_StatusOneWay ==
    [][/\ \A i \in Ids(requests') \ Ids(requests) : requests'[i].status = "Pending"
       /\ \A i \in Ids(requests) :
             requests[i].status \in {"Approved", "Declined"} =>
                requests'[i].status = requests[i].status]_vars

\* C5: through both submission endpoints, a submission with an empty type or message
\* creates no row and is not answered as submitted; one with both fields filled
\* creates exactly one Pending row.
C5_EmptySubmissionRejected ==
    [][\A e \in DOMAIN employees, ty \in FormValues, m \in FormValues :
          (employee_create_request(e, ty, m) \/ employee_request(e, ty, m)) =>
             IF ~Truthy(ty) \/ ~Truthy(m)
             THEN /\ requests' = requests
                  /\ resp'.flash # "Request submitted successfully!"
             ELSE /\ Len(requests') = Len(requests) + 1
                  /\ requests'[Len(requests')].status = "Pending"]_vars

\* C6: deleting an employee that has attendance or request rows succeeds, and
\* afterwards neither the employee nor any attendance or request row of the employee
\* is left.
C6_DeleteCascades ==
    [][\A e \in DOMAIN employees :
          (delete_employee(e) /\ (\/ \E i \in Ids(attendance) : attendance[i].employee_id = e
                                 \/ \E i \in Ids(requests) : requests[i].employee_id = e)) =>
             /\ resp'.code = 302
             /\ e \notin DOMAIN employees'
             /\ \A i \in Ids(attendance') : attendance'[i].employee_id # e
             /\ \A i \in Ids(requests') : requests'[i].employee_id # e]_vars

\* C7: the inbox shown to employee e lists, once each, exactly the notifications
\* whose target is null or e, newest first.
C7_InboxExact ==
    [][\A e \in DOMAIN employees :
          (resp'.op = "dashboard_get" /\ employee_dashboard_get(e)) =>
             LET s == resp'.inbox
             IN  /\ {s[k] : k \in DOMAIN s} =
                       {i \in Ids(notifications) :
                           notifications[i].employee_id \in {NULL, e}}
                 /\ \A k, l \in DOMAIN s : k # l => s[k] # s[l]
                 /\ \A k, l \in DOMAIN s :
                       k < l => notifications[s[k]].timestamp >=
                                   notifications[s[l]].timestamp]_vars

\* An inbox of a broadcast and a targeted notification, the newer one first.
C7_Witness ==
    /\ resp.op = "dashboard_get"
    /\ Len(resp.inbox) = 2
    /\ notifications[resp.inbox[1]].timestamp > notifications[resp.inbox[2]].timestamp
    /\ \E k \in 1..2 : notifications[resp.inbox[k]].employee_id = NULL
    /\ \E k \in 1..2 : notifications[resp.inbox[k]].employee_id # NULL

\* C8: resolving an unknown id answers 404; resolving a known id with a decision
\* other than Approved or Declined answers "Invalid status"; neither changes any
\* request; Approved on a Pending request makes it Approved.
C8_ResolveOutcomes ==
    [][\A r \in 1..(MaxReq + 1), st \in Statuses :
          update_employee_request_status(r, st) =>
             /\ r \notin Ids(requests) =>
                   resp'.code = 404 /\ requests' = requests
             /\ (r \in Ids(requests) /\ st \notin {"Approved", "Declined"}) =>
                   /\ resp'.code # 404
                   /\ resp'.flash = "Invalid status"
                   /\ requests' = requests
             /\ (r \in Ids(requests) /\ st = "Approved") =>
                   /\ requests'[r].status = "Approved"
                   /\ resp'.flash = "Request approved successfully!"]_vars

\* An unknown id was answered 404 while an approved request stands.
C8_Witness ==
    /\ resp.op = "update_status"
    /\ resp.code = 404
    /\ \E i \in Ids(requests) : requests[i].status = "Approved"

PresentCount(e) ==
    Cardinality({i \in Ids(attendance) :
                    attendance[i].employee_id = e /\ attendance[i].status = "Present"})
TotalCount(e) ==
    Cardinality({i \in Ids(attendance) : attendance[i].employee_id = e})

C10_RecordMutatedOnce ==
    [][\A i \in Ids(attendance) :
          /\ attendance'[i].check_in = attendance[i].check_in
          /\ attendance[i].check_out # NULL =>
                attendance'[i].check_out = attendance[i].check_out]_vars

\* C11: the target of every notification is null or the id of an employee now in the
\* store, whatever employees were added and deleted and whatever id the notification
\* form submitted.
C11_TargetsExist ==
    \A i \in Ids(notifications) :
       notifications[i].employee_id = NULL
          \/ notifications[i].employee_id \in DOMAIN employees

====
